---- MODULE Spec2Model ----
(***************************************************************************)
(* DER (Dynamically Expandable Representations) in SS-IL-Official:         *)
(*   networks/resnet18.py  ResNet.add_encoder / add_head / forward         *)
(*   trainer/der.py        Trainer.train / balance_fine_tune / weight_align*)
(*                                                                         *)
(* Three specifications share the module:                                  *)
(*   Spec      the growable network and the trainer's calls on it          *)
(*   SpecLoss  the per-batch loss of Trainer.train on drawn batches        *)
(*   SpecWA    Trainer.weight_align on drawn weight matrices               *)
(* Module objects live in heaps (sequences; an object's id is its index),  *)
(* so that aliasing (self.encoder is self.encoders[0]) and deepcopy are    *)
(* what they are in Python.                                                *)
(***************************************************************************)
EXTENDS Integers, Sequences, FiniteSets, TLC

VARIABLES
    mod,        \* the modules registered under the model (self.encoder, self.encoders):
                \* a heap of objects [kind, requires_grad, training, out, origin]
    head_mod,   \* the nn.Linear objects self.heads holds, a heap of the same records
    encoders,   \* self.encoders (nn.ModuleList): sequence of ids into mod
    heads,      \* self.heads (a plain Python list): sequence of ids into head_mod
    output,     \* what the last call returned: the logits of self.model(data), or nothing
    mode,       \* incremental_loader.mode
    bft_buffer, \* number of incremental_loader.update_bft_buffer() calls so far
    bft_calls,  \* number of balance_fine_tune() calls so far
    pc,         \* the trainer's position: "idle", or inside balance_fine_tune
    bft_log,    \* the "Epochs %d" lines printed by the current/last balance_fine_tune
    last,       \* the last top-level call that ended: [op, arg, raised]
    batch,      \* SpecLoss: [tasknum, ss, mid, end, target]
    loss_CE,    \* SpecLoss: the loss of the batch: [status, curr, prev, batch_size]
    fc,         \* SpecWA: [weight, end, step_size], weight a matrix of rationals
    fc_in,      \* SpecWA: the weight matrix as it was before weight_align
    wa          \* SpecWA: "ready", "done" or "ZeroDivisionError"

netVars  == <<mod, head_mod, encoders, heads, output, mode, bft_buffer, bft_calls, pc, bft_log, last>>
lossVars == <<batch, loss_CE>>
waVars   == <<fc, fc_in, wa>>
vars     == <<netVars, lossVars, waVars>>

(***************************************************************************)
(* Bounds of the model                                                     *)
(***************************************************************************)
MaxTasks   == 3     \* at most this many add_encoder / add_head calls each
MaxOut     == 2     \* num_outputs of a head is drawn from 1..MaxOut
MaxEpoch   == 2     \* train(epoch) outside balance_fine_tune draws epoch from 0..MaxEpoch-1
MaxBft     == 2     \* at most this many balance_fine_tune calls

(***************************************************************************)
(* Program constants                                                       *)
(***************************************************************************)
FeatDim    == 512   \* nn.Linear(512, num_outputs): width of a branch's feature vector
BftEpochs  == 15    \* for epoch in range(15)
encoder    == 1     \* self.encoder = self.init_encoder(): the first object of the heap

(***************************************************************************)
(* Helpers                                                                 *)
(***************************************************************************)
Range(s) == {s[i] : i \in DOMAIN s}

RECURSIVE SumWidth(_)
\* total width of torch.concat(logits, dim=1)
SumWidth(s) == IF s = <<>> THEN 0 ELSE s[1].width + SumWidth(Tail(s))

\* nn.Module() / nn.Parameter defaults: training = True, requires_grad = True
NewModule(kind, out) ==
    [kind |-> kind, requires_grad |-> TRUE, training |-> TRUE, out |-> out, origin |-> 0]

\* module.eval(); for param in module.parameters(): param.requires_grad = False
Freeze(m, ids) ==
    [i \in DOMAIN m |->
        IF i \in ids THEN [m[i] EXCEPT !.training = FALSE, !.requires_grad = FALSE]
                     ELSE m[i]]

\* copy.deepcopy(module): a new object with the source's flags as they are now
deepcopy(m, src) == [m[src] EXCEPT !.origin = src]

\* self.model.train(): nn.Module.train() recurses over the registered submodules:
\* self.encoder and the nn.ModuleList self.encoders; self.heads is a plain list
ModelTrain(m, encs) ==
    [i \in DOMAIN m |->
        IF i = encoder \/ i \in Range(encs) THEN [m[i] EXCEPT !.training = TRUE]
                                            ELSE m[i]]

\* the logit blocks of a forward pass whose every head is applied to encs[Len(encs)]
forward_last_feature(m, encs, hds) ==
    IF Len(hds) < Len(encs)
    THEN [status |-> "IndexError", logits |-> <<>>, width |-> 0]
    ELSE IF Len(encs) = 0
    THEN [status |-> "RuntimeError", logits |-> <<>>, width |-> 0]
    ELSE LET logits == [i \in 1..Len(encs) |->
                          [head |-> hds[i], feature |-> encs[Len(encs)], width |-> m[hds[i]].out]]
         IN  [status |-> "ok", logits |-> logits, width |-> SumWidth(logits)]

\* a forward pass that loops over the heads instead of the encoders
forward_over_heads(m, encs, hds) ==
    IF Len(encs) < Len(hds)
    THEN [status |-> "IndexError", logits |-> <<>>, width |-> 0]
    ELSE IF Len(hds) = 0
    THEN [status |-> "RuntimeError", logits |-> <<>>, width |-> 0]
    ELSE LET logits == [i \in 1..Len(hds) |->
                          [head |-> hds[i], feature |-> encs[i], width |-> m[hds[i]].out]]
         IN  [status |-> "ok", logits |-> logits, width |-> SumWidth(logits)]

\* ResNet.forward, trainer == 'der', "2) parallel forwarding":
\* logits[i] = self.heads[i](encoder_i(x)); x = torch.concat(logits, dim=1)
forward(m, encs, hds) ==
    IF Len(hds) < Len(encs)
    THEN [status |-> "IndexError", logits |-> <<>>, width |-> 0]
    ELSE IF Len(encs) = 0
    THEN [status |-> "RuntimeError", logits |-> <<>>, width |-> 0]
    ELSE LET logits == [i \in 1..Len(encs) |->
                          [head |-> hds[i], feature |-> encs[i], width |-> m[hds[i]].out]]
         IN  [status |-> "ok", logits |-> logits, width |-> SumWidth(logits)]

NoOutput == [status |-> "none", logits |-> <<>>, width |-> 0]
Call(op, arg, raised) == [op |-> op, arg |-> arg, raised |-> raised]

(***************************************************************************)
(* Spec: the network and the trainer                                        *)
(***************************************************************************)
NetInit ==
    /\ mod = <<NewModule("encoder", FeatDim)>>
    /\ head_mod = <<>>
    /\ encoders = <<>>
    /\ heads = <<>>
    /\ output = NoOutput
    /\ mode = "train"
    /\ bft_buffer = 0
    /\ bft_calls = 0
    /\ pc = "idle"
    /\ bft_log = <<>>
    /\ last = Call("init", 0, FALSE)

LossIdle == batch = [tasknum |-> 0, ss |-> FALSE, mid |-> 0, end |-> 0, target |-> <<>>]
            /\ loss_CE = [status |-> "off"]
WAIdle   == fc = [weight |-> <<>>, end |-> 0, step_size |-> 0] /\ fc_in = <<>> /\ wa = "idle"

\* ResNet.add_encoder
add_encoder ==
    /\ pc = "idle"
    /\ Len(encoders) < MaxTasks
    /\ IF Len(encoders) = 0
       THEN /\ encoders' = Append(encoders, encoder)
            /\ mod' = mod
       ELSE LET frozen == Freeze(mod, Range(encoders))
                new_encoder == deepcopy(frozen, encoders[Len(encoders)])
            IN  /\ mod' = Append(frozen, new_encoder)
                /\ encoders' = Append(encoders, Len(mod) + 1)
    /\ last' = Call("add_encoder", 0, FALSE)
    /\ output' = NoOutput
    /\ UNCHANGED <<head_mod, heads, mode, bft_buffer, bft_calls, pc, bft_log, lossVars, waVars>>

\* add_head with the freeze after the append, reaching the new head too
add_head_freeze_after(num_outputs) ==
    /\ pc = "idle"
    /\ Len(heads) < MaxTasks
    /\ LET grown == Append(head_mod, NewModule("head", num_outputs))
       IN  /\ head_mod' = Freeze(grown, Range(heads) \cup {Len(head_mod) + 1})
           /\ heads' = Append(heads, Len(head_mod) + 1)
    /\ last' = Call("add_head", num_outputs, FALSE)
    /\ output' = NoOutput
    /\ UNCHANGED <<mod, encoders, mode, bft_buffer, bft_calls, pc, bft_log, lossVars, waVars>>

\* ResNet.add_head
add_head(num_outputs) ==
    /\ pc = "idle"
    /\ Len(heads) < MaxTasks
    /\ LET frozen == Freeze(head_mod, Range(heads))
       IN  /\ head_mod' = Append(frozen, NewModule("head", num_outputs))
           /\ heads' = Append(heads, Len(head_mod) + 1)
    /\ last' = Call("add_head", num_outputs, FALSE)
    /\ output' = NoOutput
    /\ UNCHANGED <<mod, encoders, mode, bft_buffer, bft_calls, pc, bft_log, lossVars, waVars>>

\* self.model(data) called on its own (inference)
model_call ==
    /\ pc = "idle"
    /\ output' = forward(head_mod, encoders, heads)
    /\ last' = Call("forward", 0, output'.status # "ok")
    /\ UNCHANGED <<mod, head_mod, encoders, heads, mode, bft_buffer, bft_calls, pc, bft_log, lossVars, waVars>>

\* Trainer.train(epoch), called by the task loop: self.model.train(), then the
\* batch loop, whose forward pass raises or returns the logits.  The loss of a
\* batch is BatchLoss (SpecLoss); the optimizer step changes parameter values,
\* which the heaps do not hold, and no flag of any module.
train(epoch) ==
    /\ pc = "idle"
    /\ mod' = ModelTrain(mod, encoders)
    /\ output' = forward(head_mod, encoders, heads)
    /\ last' = Call("train", epoch, output'.status # "ok")
    /\ UNCHANGED <<head_mod, encoders, heads, mode, bft_buffer, bft_calls, pc, bft_log, lossVars, waVars>>

\* GenericTrainer.update_frozen_model, as the trainer's documentation states it:
\* every branch parameter is marked non-trainable
update_frozen_model(m, encs) ==
    [i \in DOMAIN m |->
        IF i = encoder \/ i \in Range(encs) THEN [m[i] EXCEPT !.requires_grad = FALSE]
                                            ELSE m[i]]

\* Trainer.balance_fine_tune, entry: self.update_frozen_model()
bft_begin ==
    /\ pc = "idle"
    /\ bft_calls < MaxBft
    /\ mod' = update_frozen_model(mod, encoders)
    /\ bft_calls' = bft_calls + 1
    /\ bft_log' = <<>>
    /\ pc' = "bft_buffer"
    /\ output' = NoOutput
    /\ UNCHANGED <<head_mod, encoders, heads, mode, bft_buffer, last, lossVars, waVars>>

\* balance_fine_tune without the switch of the loader's mode
bft_switch_no_mode ==
    /\ pc = "bft_buffer"
    /\ bft_buffer' = bft_buffer + 1
    /\ mode' = mode
    /\ pc' = "bft_epochs"
    /\ output' = NoOutput
    /\ UNCHANGED <<mod, head_mod, encoders, heads, bft_calls, bft_log, last, lossVars, waVars>>

\* Trainer.balance_fine_tune: update_bft_buffer(); incremental_loader.mode = 'b-ft'
bft_switch ==
    /\ pc = "bft_buffer"
    /\ bft_buffer' = bft_buffer + 1
    /\ mode' = "b-ft"
    /\ pc' = "bft_epochs"
    /\ output' = NoOutput
    /\ UNCHANGED <<mod, head_mod, encoders, heads, bft_calls, bft_log, last, lossVars, waVars>>

\* where balance_fine_tune is after train(epoch) ended with `status`
bft_after(epoch, status) ==
    IF status # "ok" THEN "raised"
    ELSE IF epoch + 1 < BftEpochs THEN "bft_epochs"
    ELSE "returned"

\* Trainer.balance_fine_tune: one round of `for epoch in range(15): self.train(epoch)`
bft_epoch ==
    /\ pc = "bft_epochs"
    /\ LET epoch == Len(bft_log)
           after == bft_after(epoch, output'.status)
       IN  /\ mod' = ModelTrain(mod, encoders)
           /\ output' = forward(head_mod, encoders, heads)
           /\ bft_log' = Append(bft_log, epoch)
           /\ pc' = IF after = "bft_epochs" THEN "bft_epochs" ELSE "idle"
           /\ last' = IF after = "bft_epochs" THEN last
                      ELSE Call("balance_fine_tune", 0, after = "raised")
    /\ UNCHANGED <<head_mod, encoders, heads, mode, bft_buffer, bft_calls, lossVars, waVars>>

Init == NetInit /\ LossIdle /\ WAIdle
Next ==
    \/ add_encoder
    \/ \E n \in 1..MaxOut : add_head(n)
    \/ model_call
    \/ \E e \in 0..(MaxEpoch - 1) : train(e)
    \/ bft_begin
    \/ bft_switch
    \/ bft_epoch
Spec == Init /\ [][Next]_vars

(***************************************************************************)
(* SpecLoss: the loss of one batch in Trainer.train                        *)
(*                                                                         *)
(* A cross-entropy value is kept as the term it is computed from: which    *)
(* examples (rows of the batch), which logit columns [lo, hi), which       *)
(* target index per example, and the factor it is multiplied by.           *)
(***************************************************************************)
MaxClasses == 8     \* end is drawn from 1..MaxClasses
MaxBatch   == 2     \* a batch holds 1..MaxBatch examples

\* curr_mask = target >= mid: the positions of the batch it selects, in batch order
curr_mask(target, mid) == SelectSeq([i \in 1..Len(target) |-> i], LAMBDA i : target[i] >= mid)

\* prev_mask = target < mid
prev_mask(target, mid) == SelectSeq([i \in 1..Len(target) |-> i], LAMBDA i : target[i] < mid)

ZeroTerm == [status |-> "zero", rows |-> <<>>, lo |-> 0, hi |-> 0, target |-> <<>>, weight |-> 0]

\* torch.nn.CrossEntropyLoss(reduction='mean') on output[rows, lo:hi] against tg:
\* nan over no examples, an error for a target outside [0, hi - lo)
CrossEntropy(rows, lo, hi, tg) ==
    [status |-> IF rows = <<>> THEN "nan"
                ELSE IF \E k \in 1..Len(tg) : tg[k] < 0 \/ tg[k] >= hi - lo THEN "IndexError"
                ELSE "ok",
     rows |-> rows, lo |-> lo, hi |-> hi, target |-> tg, weight |-> 1]

\* loss * num
Times(term, num) == [term EXCEPT !.weight = num]

\* the target indices of the current-task examples: target[curr_mask] % (end - mid)
CurrTarget(target, rows, mid, end) == [k \in 1..Len(rows) |-> target[rows[k]] % (end - mid)]

\* the target indices of the previous-task examples: target[prev_mask]
PrevTarget(target, rows) == [k \in 1..Len(rows) |-> target[rows[k]]]

\* status of (loss_CE_curr + loss_CE_prev) / batch_size
SumStatus(a, b) ==
    IF a.status = "IndexError" \/ b.status = "IndexError" THEN "IndexError"
    ELSE IF a.status = "nan" \/ b.status = "nan" THEN "nan"
    ELSE "ok"

\* Trainer.train, the body of the batch loop up to loss_CE
BatchLoss(b) ==
    IF b.tasknum > 0 /\ b.ss
    THEN LET curr_rows == curr_mask(b.target, b.mid)
             prev_rows == prev_mask(b.target, b.mid)
             curr_num  == Len(curr_rows)
             prev_num  == Len(prev_rows)
             loss_CE_curr == Times(CrossEntropy(curr_rows, b.mid, b.end,
                                       CurrTarget(b.target, curr_rows, b.mid, b.end)), curr_num)
             loss_CE_prev == IF prev_num > 0
                             THEN Times(CrossEntropy(prev_rows, 0, b.mid,
                                       PrevTarget(b.target, prev_rows)), prev_num)
                             ELSE ZeroTerm
         IN  [status |-> SumStatus(loss_CE_curr, loss_CE_prev), form |-> "separated",
              curr |-> loss_CE_curr, prev |-> loss_CE_prev, batch_size |-> curr_num + prev_num]
    ELSE LET all == [i \in 1..Len(b.target) |-> i]
             ce  == CrossEntropy(all, 0, b.end, b.target)
         IN  [status |-> SumStatus(ce, ZeroTerm), form |-> "plain",
              curr |-> ce, prev |-> ZeroTerm, batch_size |-> 1]

NoLoss == [status |-> "none", form |-> "none", curr |-> ZeroTerm, prev |-> ZeroTerm, batch_size |-> 0]

NetIdle ==
    /\ mod = <<>> /\ head_mod = <<>> /\ encoders = <<>> /\ heads = <<>> /\ output = NoOutput
    /\ mode = "train" /\ bft_buffer = 0 /\ bft_calls = 0 /\ pc = "off"
    /\ bft_log = <<>> /\ last = Call("init", 0, FALSE)

\* a batch the loader can hand to train: labels in [0, end), mid the class count
\* before the current task (0 exactly at task 0)
LossInit ==
    /\ \E t \in 0..1, s \in BOOLEAN, e \in 1..MaxClasses :
         \E m \in 0..(e - 1), n \in 1..MaxBatch :
            \E tg \in [1..n -> 0..(e - 1)] :
               /\ (t = 0) <=> (m = 0)
               /\ batch = [tasknum |-> t, ss |-> s, mid |-> m, end |-> e, target |-> tg]
    /\ loss_CE = NoLoss

\* for data, target in self.train_iterator: ... loss_CE = ...
batch_loss ==
    /\ loss_CE.status = "none"
    /\ loss_CE' = BatchLoss(batch)
    /\ UNCHANGED <<batch, netVars, waVars>>

\* the iterator hands over the next batch of the same task
next_batch ==
    /\ loss_CE.status \in {"ok", "nan"}
    /\ \E tg \in UNION { [1..n -> 0..(batch.end - 1)] : n \in 1..MaxBatch } :
          batch' = [batch EXCEPT !.target = tg]
    /\ loss_CE' = NoLoss
    /\ UNCHANGED <<netVars, waVars>>

InitLoss == NetIdle /\ LossInit /\ WAIdle
NextLoss == batch_loss \/ next_batch
SpecLoss == InitLoss /\ [][NextLoss]_vars

(***************************************************************************)
(* SpecWA: Trainer.weight_align                                            *)
(*                                                                         *)
(* Weights are exact rationals <<numerator, denominator>>, denominator > 0 *)
(* in lowest terms; <<0, 0>> is nan.  The rows drawn have integer entries  *)
(* and an integer L2 norm, so that every mean and the factor gamma are     *)
(* rationals.                                                              *)
(***************************************************************************)
MaxRows == 4        \* the weight matrix has MaxRows rows (classes)

Abs(x) == IF x < 0 THEN -x ELSE x

RECURSIVE GCD(_, _)
GCD(a, b) == IF b = 0 THEN a ELSE GCD(b, a % b)

NaN == <<0, 0>>
IsNaN(q) == q[2] = 0

\* the rational n / d in lowest terms, d # 0
Rat(n, d) ==
    LET g == GCD(Abs(n), Abs(d))
        sgn == IF d < 0 THEN -1 ELSE 1
    IN  <<sgn * (n \div g), sgn * (d \div g)>>

RatMul(p, q) == IF IsNaN(p) \/ IsNaN(q) THEN NaN ELSE Rat(p[1] * q[1], p[2] * q[2])

\* the integer square root of a perfect square
ISqrt(n) == CHOOSE r \in 0..n : r * r = n

RECURSIVE SumSeq(_)
SumSeq(s) == IF s = <<>> THEN 0 ELSE s[1] + SumSeq(Tail(s))

\* torch.norm(w, dim=1): the L2 norm of each row
RowNorms(w) == [i \in 1..Len(w) |-> ISqrt(SumSeq([j \in 1..Len(w[i]) |-> w[i][j][1] * w[i][j][1]]))]

\* torch.mean(...).item(): nan over no rows
Mean(s) == IF s = <<>> THEN NaN ELSE Rat(SumSeq(s), Len(s))

\* the ratio the other way round: mean_new/mean_prev
GammaInverse(mean_prev, mean_new) ==
    IF IsNaN(mean_prev) \/ mean_prev[1] = 0 THEN NaN
    ELSE Rat(mean_new[1] * mean_prev[2], mean_new[2] * mean_prev[1])

\* gamma = mean_prev/mean_new, mean_new # 0
Gamma(mean_prev, mean_new) ==
    IF IsNaN(mean_prev) THEN NaN ELSE Rat(mean_prev[1] * mean_new[2], mean_prev[2] * mean_new[1])

\* new * gamma
Scale(rows, gamma) == [i \in 1..Len(rows) |-> [j \in 1..Len(rows[i]) |-> RatMul(rows[i][j], gamma)]]

\* weight[:end, :] = result, in place: the rows from end on stay
WriteBack(weight, end, result) == result \o SubSeq(weight, end + 1, Len(weight))

\* Trainer.weight_align on f = [weight, end, step_size]: [raised, weight]
WeightAlign(f) ==
    LET start == f.end - f.step_size
        prev == SubSeq(f.weight, 1, start)
        new  == SubSeq(f.weight, start + 1, f.end)
        mean_prev == Mean(RowNorms(prev))
        mean_new  == Mean(RowNorms(new))
    IN  IF mean_new[1] = 0
        THEN [raised |-> TRUE, weight |-> f.weight]
        ELSE [raised |-> FALSE,
              weight |-> WriteBack(f.weight, f.end, prev \o Scale(new, Gamma(mean_prev, mean_new)))]

\* rows of the output layer as training leaves them
RowValues == { <<Rat(0, 1), Rat(0, 1)>>, <<Rat(1, 1), Rat(0, 1)>>,
               <<Rat(0, 1), Rat(-2, 1)>>, <<Rat(3, 1), Rat(4, 1)>> }

WAInit ==
    /\ \E w \in [1..MaxRows -> RowValues], e \in 1..MaxRows :
         \E st \in 1..e :
            /\ fc = [weight |-> w, end |-> e, step_size |-> st]
            /\ fc_in = w
    /\ wa = "ready"

\* Trainer.weight_align
weight_align ==
    /\ wa = "ready"
    /\ LET r == WeightAlign(fc)
       IN  /\ fc' = [fc EXCEPT !.weight = r.weight]
           /\ wa' = IF r.raised THEN "ZeroDivisionError" ELSE "done"
    /\ UNCHANGED <<fc_in, netVars, lossVars>>

InitWA == NetIdle /\ LossIdle /\ WAInit
NextWA == weight_align
SpecWA == InitWA /\ [][NextWA]_vars

(***************************************************************************)
(* Properties of the network and the trainer (Spec)                        *)
(***************************************************************************)
Frozen(m, id)    == ~m[id].requires_grad /\ ~m[id].training
Trainable(m, id) == m[id].requires_grad
Older(seq)    == {seq[i] : i \in 1..(Len(seq) - 1)}
Newest(seq)   == seq[Len(seq)]
Increasing(seq) == \A i, j \in DOMAIN seq : i < j => seq[i] < seq[j]

RECURSIVE ClassCount(_)
\* the sum of the class counts of the heads of a list
ClassCount(hds) == IF hds = <<>> THEN 0 ELSE head_mod[hds[1]].out + ClassCount(Tail(hds))

\* the last call ran a forward pass (every call that changes a list returns none)
FreshOutput == output.status # "none"

\* C1: in the state a growth step (an add_encoder that found a branch already
\* there) leaves, every older branch has gradients disabled and is in
\* inference mode, the newest branch has gradients enabled, and so exactly
\* one branch is trainable.
C1_FreezingProperty ==
    (last.op = "add_encoder" /\ Len(encoders) >= 2) =>
        /\ \A id \in Older(encoders) : Frozen(mod, id)
        /\ Trainable(mod, Newest(encoders))
        /\ Cardinality({id \in Range(encoders) : Trainable(mod, id)}) = 1

\* C6: once a newer branch exists, every older branch has gradients disabled
\* and is in evaluation mode, in every later state (train epochs and
\* balance_fine_tune included).
C6_OlderBranchesStayFrozen ==
    \A id \in Older(encoders) : Frozen(mod, id)

\* C8 (state part): every head but the most recently created one is frozen,
\* the most recent one is trainable, and the heads stand in creation order;
\* right after add_head(num_outputs) the last head has num_outputs outputs.
HeadsFrozenButNewest ==
    /\ \A id \in Older(heads) : Frozen(head_mod, id)
    /\ heads # <<>> => Trainable(head_mod, Newest(heads)) /\ head_mod[Newest(heads)].kind = "head"
    /\ Increasing(heads)
    /\ last.op = "add_head" => head_mod[Newest(heads)].out = last.arg /\ head_mod[Newest(heads)].training

\* C8 (step part): a step that changes the head list appends exactly one new
\* object to it and keeps the heads that were there, in their places, with
\* their class counts.
HeadsOnlyAppended ==
    heads' # heads =>
        /\ Len(heads') = Len(heads) + 1
        /\ SubSeq(heads', 1, Len(heads)) = heads
        /\ Newest(heads') \notin DOMAIN head_mod
        /\ \A id \in Range(heads) : head_mod'[id].out = head_mod[id].out /\ Frozen(head_mod', id)

\* C8: add_head freezes every existing head and appends one new trainable head
\* of num_outputs outputs; all heads but the newest are frozen in every state,
\* and no head is removed, replaced or reordered.
C8_HeadFreezing == []HeadsFrozenButNewest /\ [][HeadsOnlyAppended]_vars

C8_Witness ==
    /\ Len(heads) >= 2
    /\ last.op = "add_head"
    /\ Frozen(head_mod, heads[1])

\* C4: with N >= 1 branches and N heads, a forward pass returns N logit
\* blocks; block i is head i applied to the features of branch i, heads and
\* branches standing in creation order, and the width of the output is the
\* sum of the N heads' class counts.
C4_ForwardComposition ==
    (FreshOutput /\ Len(encoders) = Len(heads) /\ Len(encoders) >= 1) =>
        /\ output.status = "ok"
        /\ Len(output.logits) = Len(encoders)
        /\ \A i \in 1..Len(encoders) :
              /\ output.logits[i].head = heads[i]
              /\ output.logits[i].feature = encoders[i]
              /\ output.logits[i].width = head_mod[heads[i]].out
        /\ Increasing(heads) /\ Increasing(encoders)
        /\ output.width = ClassCount(heads)

C4_Witness ==
    /\ FreshOutput
    /\ Len(encoders) = MaxTasks /\ Len(heads) = MaxTasks
    /\ output.status = "ok"
    /\ head_mod[heads[1]].out # head_mod[heads[2]].out

\* C5 as stated: in every reachable state the two lists have equal length and
\* the width of forward is the sum of the class counts of all heads.
C5_EqualLengths ==
    /\ Len(encoders) = Len(heads)
    /\ (FreshOutput /\ output.status = "ok") => output.width = ClassCount(heads)

\* C5 amended: the lists need not have equal length; a forward pass raises
\* when there are fewer heads than branches (or no branch), and otherwise its
\* width is the sum of the class counts of the first len(encoders) heads,
\* which is the sum over all heads exactly when the lists have equal length.
C5_WidthOfPairedHeads ==
    FreshOutput =>
        /\ (output.status = "ok") <=> (1 <= Len(encoders) /\ Len(encoders) <= Len(heads))
        /\ output.status = "ok" =>
              /\ output.width = ClassCount(SubSeq(heads, 1, Len(encoders)))
              /\ (output.width = ClassCount(heads)) <=> (Len(encoders) = Len(heads))

C5_Witness ==
    /\ FreshOutput
    /\ output.status = "ok"
    /\ Len(heads) > Len(encoders)
    /\ output.width < ClassCount(heads)

\* C9: one balance_fine_tune call freezes the branches first, then rebuilds
\* the balanced buffer and sets the loader's mode to 'b-ft', and only then
\* runs train for the epochs 0, 1, ..., 14 in this order: no epoch runs
\* before the freeze and the switch, no branch parameter is trainable while
\* the epochs run, and a call that returns has run exactly 15 epochs.
C9_BalancedFineTuneOrder ==
    /\ bft_log = [i \in 1..Len(bft_log) |-> i - 1]
    /\ Len(bft_log) <= BftEpochs
    /\ pc = "bft_buffer" =>
          /\ bft_log = <<>>
          /\ bft_buffer = bft_calls - 1
          /\ \A id \in Range(encoders) : ~Trainable(mod, id)
    /\ (pc = "bft_epochs" \/ bft_log # <<>>) =>
          /\ mode = "b-ft"
          /\ bft_buffer = bft_calls
    /\ pc = "bft_epochs" =>
          /\ Len(bft_log) < BftEpochs
          /\ \A id \in Range(encoders) : ~Trainable(mod, id)
    /\ (pc = "idle" /\ last.op = "balance_fine_tune") =>
          /\ \A id \in Range(encoders) : ~Trainable(mod, id)
          /\ ~last.raised => Len(bft_log) = BftEpochs

C9_Witness ==
    /\ pc = "idle"
    /\ last = Call("balance_fine_tune", 0, FALSE)
    /\ Len(bft_log) = BftEpochs /\ bft_log[BftEpochs] = BftEpochs - 1
    /\ encoders # <<>>

(***************************************************************************)
(* Properties of the batch loss (SpecLoss)                                 *)
(***************************************************************************)
Separated == loss_CE.status # "none" /\ batch.ss /\ batch.tasknum > 0
Positions == [i \in 1..Len(batch.target) |-> i]
CurrRows  == SelectSeq(Positions, LAMBDA i : batch.target[i] >= batch.mid)
PrevRows  == SelectSeq(Positions, LAMBDA i : batch.target[i] < batch.mid)

\* C2: in separated-softmax mode at a task > 0, the current-task examples
\* are scored on columns [boundary, end) at target label - boundary, the
\* previous-task examples on columns [0, boundary) at their label, the terms
\* are weighted by curr_num and prev_num and divided by their sum, and with
\* no previous-task example the previous term is zero.
C2_TaskPartitionedLoss ==
    Separated =>
        /\ loss_CE.curr.rows = CurrRows
        /\ loss_CE.curr.lo = batch.mid /\ loss_CE.curr.hi = batch.end
        /\ \A k \in 1..Len(CurrRows) :
              loss_CE.curr.target[k] = batch.target[CurrRows[k]] - batch.mid
        /\ loss_CE.curr.weight = Len(CurrRows)
        /\ IF PrevRows = <<>>
           THEN loss_CE.prev = ZeroTerm
           ELSE /\ loss_CE.prev.rows = PrevRows
                /\ loss_CE.prev.lo = 0 /\ loss_CE.prev.hi = batch.mid
                /\ \A k \in 1..Len(PrevRows) :
                      loss_CE.prev.target[k] = batch.target[PrevRows[k]]
                /\ loss_CE.prev.weight = Len(PrevRows)
        /\ loss_CE.batch_size = Len(CurrRows) + Len(PrevRows)

\* C10: in separated-softmax mode at a task > 0, a batch without any
\* current-task example gives the plain cross-entropy of the previous-task
\* examples on columns [0, boundary): the current term is zero and no
\* cross-entropy is evaluated over an empty set of examples.
C10_EmptyCurrentPartition ==
    (Separated /\ CurrRows = <<>>) =>
        /\ loss_CE.status = "ok"
        /\ loss_CE.curr.status # "nan"
        /\ loss_CE.prev.status = "ok" /\ loss_CE.prev.rows = PrevRows

(***************************************************************************)
(* Properties of weight_align (SpecWA)                                     *)
(***************************************************************************)
Start     == fc.end - fc.step_size
NormSum(w, lo, hi) == SumSeq(RowNorms(SubSeq(w, lo, hi)))
MeanNewIsZero == NormSum(fc_in, Start + 1, fc.end) = 0

\* C3: when the mean norm of the new rows is zero, weight_align does not
\* raise and leaves the weight matrix as it was.
C3_DegenerateNoOp ==
    (wa # "ready" /\ MeanNewIsZero) => (wa = "done" /\ fc.weight = fc_in)

\* C7: for 0 < start < end and a non-zero mean norm of the new rows,
\* weight_align leaves the rows [0, start) and the rows from end on as they
\* were and writes into every row of [start, end) the old row times
\* gamma = mean_prev / mean_new, both means taken over the old matrix:
\*   new * (sum_new / n_new) = old * (sum_prev / n_prev).
C7_WeightAlignFrameAndScale ==
    (wa # "ready" /\ 0 < Start /\ ~MeanNewIsZero) =>
        /\ wa = "done"
        /\ Len(fc.weight) = Len(fc_in)
        /\ \A i \in 1..Len(fc_in) :
              IF i <= Start \/ i > fc.end
              THEN fc.weight[i] = fc_in[i]
              ELSE \A j \in 1..Len(fc_in[i]) :
                     LET new == fc.weight[i][j]
                         old == fc_in[i][j]
                     IN  /\ new[2] > 0
                         /\ GCD(Abs(new[1]), new[2]) = 1
                         /\ new[1] * NormSum(fc_in, Start + 1, fc.end) * Start * old[2]
                              = old[1] * NormSum(fc_in, 1, Start) * fc.step_size * new[2]

C7_Witness ==
    /\ wa = "done"
    /\ 0 < Start /\ fc.end < Len(fc_in)
    /\ fc_in[fc.end + 1] # <<Rat(0, 1), Rat(0, 1)>>
    /\ \E i \in (Start + 1)..fc.end : fc.weight[i] # fc_in[i] /\ fc.weight[i][1][2] > 1
====
